---- MODULE Spec2Model ----
(***************************************************************************)
(* A model of the cache-aware memory scrubber of src/src/lib.rs:           *)
(* BaseCacheDesc (the cache geometry and read_cacheline), ScrubArea,       *)
(* ScrubAreaIterator, MemoryScrubberIterator and MemoryScrubber.           *)
(*                                                                         *)
(* Option<T> is a sequence: None is <<>> and Some(x) is <<x>>.             *)
(* usize is an unsigned integer of WordBits bits.  The build decides what  *)
(* an arithmetic overflow does: with overflow checks (a debug build) it    *)
(* panics, without them (a release build) it wraps.  overflow_checks is    *)
(* chosen once, in Init, and both builds are explored.                     *)
(***************************************************************************)
EXTENDS Integers, Sequences, FiniteSets, TLC

(***************************************************************************)
(* Bounds of the model.                                                    *)
(***************************************************************************)
\* usize::BITS of the model (64 in the source).
WordBits == 12
\* Addresses of ScrubArea.start and ScrubArea.end given to MemoryScrubber::new.
MaxAddr == 4
\* Addresses of the ScrubArea given to a ScrubAreaIterator iterated on its own.
AreaMaxAddr == 15
\* cacheline_width() ranges over 1..MaxCachelineWidth.
MaxCachelineWidth == 2
\* cache_index_width() ranges over 0..MaxCacheIndexWidth.
MaxCacheIndexWidth == 1
\* Length of the scrub_areas slice.
MaxAreas == 2
\* Largest n of one scrub(n) call, in bytes.
MaxScrubBytes == 6
\* Cache lines requested from one MemoryScrubber over its life.
MaxLines == 6
\* next() calls that return an address on a ScrubAreaIterator iterated on its own.
MaxEmit == 9
\* the most non-zero chunks the policy of autoscrub returns
MaxChunks == 2
\* the highest address of the scrub areas of an iterator iterated on its own
IterMaxAddr == 7
\* cache_index_width() of a ScrubAreaIterator iterated on its own ranges over
\* 0..AreaMaxCacheIndexWidth.
AreaMaxCacheIndexWidth == 2

VARIABLES
    \* BaseCacheDesc
    cacheline_width,    \* cacheline_width(): bits of the byte offset in a cache line
    cache_index_width,  \* cache_index_width(): bits of the cache index
    overflow_checks,    \* TRUE: arithmetic overflow panics; FALSE: it wraps
    n_reads,            \* read_cacheline's effect: address -> number of reads
    touched,            \* the addresses given to read_cacheline, in order
    \* a ScrubAreaIterator iterated on its own
    area_iter,          \* Option<ScrubAreaIterator>
    area_res,           \* what its last next() returned: "new", "Some", "None", "panic"
    emitted,            \* <<index at the call, address>> of every Some it returned
    \* MemoryScrubber
    pc,                 \* where the caller / MemoryScrubber::scrub stands
    args,               \* the scrub_areas slice given to MemoryScrubber::new
    result,             \* the last Result returned by new or scrub
    scrub_areas,        \* MemoryScrubber.scrub_areas
    iterator,           \* MemoryScrubber.iterator: Option<MemoryScrubberIterator>
    todo,               \* iterations left of scrub's for loop
    p,                  \* scrub's local p: Option<address>
    \* history of the scrub calls, for the properties
    requested,          \* cache lines asked of scrub by the accepted calls so far
    visits,             \* areas for which the current MemoryScrubberIterator made an iterator
    pass_lines,         \* area of every address the current MemoryScrubberIterator returned
    prev,               \* scrubber state and size at the start of the call before the last
    \* BaseAutoScrub
    chunks,             \* the values desc.next() has returned to autoscrub, in order
    \* the RefCell that holds the cache descriptor
    cell                \* its borrows: [readers, writing], and failed: a borrow panicked

cache_vars == <<cacheline_width, cache_index_width, overflow_checks, n_reads, touched>>
area_vars == <<area_iter, area_res, emitted>>
scrub_vars ==
    <<pc, args, result, scrub_areas, iterator, todo, p, requested, visits, pass_lines, prev, chunks>>
vars == <<cache_vars, area_vars, scrub_vars, cell>>

None == <<>>
Some(x) == <<x>>
is_none(o) == o = <<>>
unwrap(o) == o[1]

(***************************************************************************)
(* usize arithmetic.                                                       *)
(***************************************************************************)
Modulus == 2 ^ WordBits
Wrap(x) == ((x % Modulus) + Modulus) % Modulus
Overflows(x) == x < 0 \/ x >= Modulus

(***************************************************************************)
(* BaseCacheDesc                                                           *)
(***************************************************************************)
cacheline_size == 2 ^ cacheline_width
cache_lines == 2 ^ cache_index_width

\* size_in_cachelines: [val, overflow]; the subtraction or the addition of one
\* may overflow when the area's end lies below its start.
size_in_cachelines(scrub_area) ==
    LET start_in_cachelines == scrub_area.start \div (2 ^ cacheline_width)
        end_in_cachelines == scrub_area.end \div (2 ^ cacheline_width)
        diff == end_in_cachelines - start_in_cachelines
    IN  [val |-> Wrap(Wrap(diff) + 1),
         overflow |-> Overflows(diff) \/ Overflows(Wrap(diff) + 1)]

cache_index(addr) ==
    LET width == cacheline_width
        mask == (2 ^ cache_index_width) - 1
    IN  (addr \div (2 ^ width)) % (mask + 1)

(***************************************************************************)
(* ScrubAreaIterator                                                       *)
(***************************************************************************)
ScrubAreaIterator_new(scrub_area) ==
    [scrub_area |-> scrub_area, index |-> 0, offset |-> 0]

\* start.offset(offset): the pointer moves by offset cache lines (size_of::<U>()
\* is the cache line size); the address wraps at the width of a pointer.
ptr_offset(start, offset) == Wrap(start + offset * cacheline_size)

\* ScrubAreaIterator::next with the offset advanced by one cache line instead
\* of by cache_lines (a linear walk): a mutant of ScrubAreaIterator_next.
RECURSIVE ScrubAreaIterator_next_linear(_)
ScrubAreaIterator_next_linear(self) ==
    IF self.index = cache_lines
    THEN [self |-> self, res |-> None, index |-> self.index, panic |-> FALSE]
    ELSE LET offset == self.index + self.offset
             size == size_in_cachelines(self.scrub_area)
             next_offset == self.offset + 1
         IN  IF overflow_checks /\ (Overflows(offset) \/ size.overflow)
             THEN [self |-> self, res |-> None, index |-> self.index, panic |-> TRUE]
             ELSE IF Wrap(offset) < size.val
             THEN [self |-> [self EXCEPT !.offset = Wrap(next_offset)],
                   res |-> Some(ptr_offset(self.scrub_area.start, Wrap(offset))),
                   index |-> self.index,
                   panic |-> FALSE]
             ELSE ScrubAreaIterator_next_linear(
                      [self EXCEPT !.index = self.index + 1, !.offset = 0])

\* ScrubAreaIterator::next with the offset left as it is after an address is
\* returned: a mutant of ScrubAreaIterator_next.
RECURSIVE ScrubAreaIterator_next_stuck(_)
ScrubAreaIterator_next_stuck(self) ==
    IF self.index = cache_lines
    THEN [self |-> self, res |-> None, index |-> self.index, panic |-> FALSE]
    ELSE LET offset == self.index + self.offset
             size == size_in_cachelines(self.scrub_area)
         IN  IF overflow_checks /\ (Overflows(offset) \/ size.overflow)
             THEN [self |-> self, res |-> None, index |-> self.index, panic |-> TRUE]
             ELSE IF Wrap(offset) < size.val
             THEN [self |-> self,
                   res |-> Some(ptr_offset(self.scrub_area.start, Wrap(offset))),
                   index |-> self.index,
                   panic |-> FALSE]
             ELSE ScrubAreaIterator_next_stuck(
                      [self EXCEPT !.index = self.index + 1, !.offset = 0])

\* ScrubAreaIterator::next with the cache index of start added to the offset of
\* the address: a mutant of ScrubAreaIterator_next.
RECURSIVE ScrubAreaIterator_next_indexed(_)
ScrubAreaIterator_next_indexed(self) ==
    IF self.index = cache_lines
    THEN [self |-> self, res |-> None, index |-> self.index, panic |-> FALSE]
    ELSE LET offset == self.index + self.offset
             size == size_in_cachelines(self.scrub_area)
             next_offset == self.offset + cache_lines
         IN  IF overflow_checks /\ (Overflows(offset) \/ size.overflow)
             THEN [self |-> self, res |-> None, index |-> self.index, panic |-> TRUE]
             ELSE IF Wrap(offset) < size.val
             THEN IF overflow_checks /\ Overflows(next_offset)
                  THEN [self |-> self, res |-> None, index |-> self.index,
                        panic |-> TRUE]
                  ELSE [self |-> [self EXCEPT !.offset = Wrap(next_offset)],
                        res |-> Some(ptr_offset(self.scrub_area.start, Wrap(offset + cache_index(self.scrub_area.start)))),
                        index |-> self.index,
                        panic |-> FALSE]
             ELSE ScrubAreaIterator_next_indexed(
                      [self EXCEPT !.index = self.index + 1, !.offset = 0])

\* ScrubAreaIterator::next with the offset advanced by cache_index_width()
\* instead of cache_lines(): a mutant of ScrubAreaIterator_next.
RECURSIVE ScrubAreaIterator_next_width(_)
ScrubAreaIterator_next_width(self) ==
    IF self.index = cache_lines
    THEN [self |-> self, res |-> None, index |-> self.index, panic |-> FALSE]
    ELSE LET offset == self.index + self.offset
             size == size_in_cachelines(self.scrub_area)
             next_offset == self.offset + cache_index_width
         IN  IF overflow_checks /\ (Overflows(offset) \/ size.overflow)
             THEN [self |-> self, res |-> None, index |-> self.index, panic |-> TRUE]
             ELSE IF Wrap(offset) < size.val
             THEN IF overflow_checks /\ Overflows(next_offset)
                  THEN [self |-> self, res |-> None, index |-> self.index,
                        panic |-> TRUE]
                  ELSE [self |-> [self EXCEPT !.offset = Wrap(next_offset)],
                        res |-> Some(ptr_offset(self.scrub_area.start, Wrap(offset))),
                        index |-> self.index,
                        panic |-> FALSE]
             ELSE ScrubAreaIterator_next_width(
                      [self EXCEPT !.index = self.index + 1, !.offset = 0])

\* ScrubAreaIterator::next that ends one index late, when index is above
\* cache_lines(): a mutant of ScrubAreaIterator_next.
RECURSIVE ScrubAreaIterator_next_late(_)
ScrubAreaIterator_next_late(self) ==
    IF self.index > cache_lines
    THEN [self |-> self, res |-> None, index |-> self.index, panic |-> FALSE]
    ELSE LET offset == self.index + self.offset
             size == size_in_cachelines(self.scrub_area)
             next_offset == self.offset + cache_lines
         IN  IF overflow_checks /\ (Overflows(offset) \/ size.overflow)
             THEN [self |-> self, res |-> None, index |-> self.index, panic |-> TRUE]
             ELSE IF Wrap(offset) < size.val
             THEN IF overflow_checks /\ Overflows(next_offset)
                  THEN [self |-> self, res |-> None, index |-> self.index,
                        panic |-> TRUE]
                  ELSE [self |-> [self EXCEPT !.offset = Wrap(next_offset)],
                        res |-> Some(ptr_offset(self.scrub_area.start, Wrap(offset))),
                        index |-> self.index,
                        panic |-> FALSE]
             ELSE ScrubAreaIterator_next_late(
                      [self EXCEPT !.index = self.index + 1, !.offset = 0])

\* ScrubAreaIterator::next that keeps the offset when it advances the index: a
\* mutant of ScrubAreaIterator_next.
RECURSIVE ScrubAreaIterator_next_keep_offset(_)
ScrubAreaIterator_next_keep_offset(self) ==
    IF self.index = cache_lines
    THEN [self |-> self, res |-> None, index |-> self.index, panic |-> FALSE]
    ELSE LET offset == self.index + self.offset
             size == size_in_cachelines(self.scrub_area)
             next_offset == self.offset + cache_lines
         IN  IF overflow_checks /\ (Overflows(offset) \/ size.overflow)
             THEN [self |-> self, res |-> None, index |-> self.index, panic |-> TRUE]
             ELSE IF Wrap(offset) < size.val
             THEN IF overflow_checks /\ Overflows(next_offset)
                  THEN [self |-> self, res |-> None, index |-> self.index,
                        panic |-> TRUE]
                  ELSE [self |-> [self EXCEPT !.offset = Wrap(next_offset)],
                        res |-> Some(ptr_offset(self.scrub_area.start, Wrap(offset))),
                        index |-> self.index,
                        panic |-> FALSE]
             ELSE ScrubAreaIterator_next_keep_offset(
                      [self EXCEPT !.index = self.index + 1])

\* ScrubAreaIterator::next that goes back to its first state when it returns
\* None: a mutant of ScrubAreaIterator_next.
RECURSIVE ScrubAreaIterator_next_rewind(_)
ScrubAreaIterator_next_rewind(self) ==
    IF self.index = cache_lines
    THEN [self |-> [self EXCEPT !.index = 0, !.offset = 0], res |-> None, index |-> self.index, panic |-> FALSE]
    ELSE LET offset == self.index + self.offset
             size == size_in_cachelines(self.scrub_area)
             next_offset == self.offset + cache_lines
         IN  IF overflow_checks /\ (Overflows(offset) \/ size.overflow)
             THEN [self |-> self, res |-> None, index |-> self.index, panic |-> TRUE]
             ELSE IF Wrap(offset) < size.val
             THEN IF overflow_checks /\ Overflows(next_offset)
                  THEN [self |-> self, res |-> None, index |-> self.index,
                        panic |-> TRUE]
                  ELSE [self |-> [self EXCEPT !.offset = Wrap(next_offset)],
                        res |-> Some(ptr_offset(self.scrub_area.start, Wrap(offset))),
                        index |-> self.index,
                        panic |-> FALSE]
             ELSE ScrubAreaIterator_next_rewind(
                      [self EXCEPT !.index = self.index + 1, !.offset = 0])

\* ScrubAreaIterator::next that takes the offset equal to the size as inside
\* the region (offset <= size): a mutant of ScrubAreaIterator_next.
RECURSIVE ScrubAreaIterator_next_inclusive(_)
ScrubAreaIterator_next_inclusive(self) ==
    IF self.index = cache_lines
    THEN [self |-> self, res |-> None, index |-> self.index, panic |-> FALSE]
    ELSE LET offset == self.index + self.offset
             size == size_in_cachelines(self.scrub_area)
             next_offset == self.offset + cache_lines
         IN  IF overflow_checks /\ (Overflows(offset) \/ size.overflow)
             THEN [self |-> self, res |-> None, index |-> self.index, panic |-> TRUE]
             ELSE IF Wrap(offset) <= size.val
             THEN IF overflow_checks /\ Overflows(next_offset)
                  THEN [self |-> self, res |-> None, index |-> self.index,
                        panic |-> TRUE]
                  ELSE [self |-> [self EXCEPT !.offset = Wrap(next_offset)],
                        res |-> Some(ptr_offset(self.scrub_area.start, Wrap(offset))),
                        index |-> self.index,
                        panic |-> FALSE]
             ELSE ScrubAreaIterator_next_inclusive(
                      [self EXCEPT !.index = self.index + 1, !.offset = 0])

\* One call of ScrubAreaIterator::next on self:
\* [self: the iterator after the call, res: Option<address>, index: the index
\* the address was emitted for, panic: the call panicked on an overflow].
RECURSIVE ScrubAreaIterator_next(_)
ScrubAreaIterator_next(self) ==
    IF self.index = cache_lines
    THEN [self |-> self, res |-> None, index |-> self.index, panic |-> FALSE]
    ELSE LET offset == self.index + self.offset
             size == size_in_cachelines(self.scrub_area)
             next_offset == self.offset + cache_lines
         IN  IF overflow_checks /\ (Overflows(offset) \/ size.overflow)
             THEN [self |-> self, res |-> None, index |-> self.index, panic |-> TRUE]
             ELSE IF Wrap(offset) < size.val
             THEN IF overflow_checks /\ Overflows(next_offset)
                  THEN [self |-> self, res |-> None, index |-> self.index,
                        panic |-> TRUE]
                  ELSE [self |-> [self EXCEPT !.offset = Wrap(next_offset)],
                        res |-> Some(ptr_offset(self.scrub_area.start, Wrap(offset))),
                        index |-> self.index,
                        panic |-> FALSE]
             ELSE ScrubAreaIterator_next(
                      [self EXCEPT !.index = self.index + 1, !.offset = 0])

(***************************************************************************)
(* Rc<RefCell<&mut T>>: the borrows of the cache descriptor.  borrow()     *)
(* panics when the cell is mutably borrowed, borrow_mut() when it is       *)
(* borrowed at all; failed records the panic.                              *)
(***************************************************************************)
\* RefCell::new(cache_desc) of MemoryScrubber::new: no borrow is live.
Unused == [readers |-> 0, writing |-> FALSE, failed |-> FALSE]
RefCell_borrow(c) ==
    IF c.writing THEN [c EXCEPT !.failed = TRUE] ELSE [c EXCEPT !.readers = c.readers + 1]
RefCell_borrow_mut(c) ==
    IF c.writing \/ c.readers > 0 THEN [c EXCEPT !.failed = TRUE]
    ELSE [c EXCEPT !.writing = TRUE]
\* The Ref or RefMut goes out of scope.
Ref_drop(c) == [c EXCEPT !.readers = IF c.readers > 0 THEN c.readers - 1 ELSE 0]
RefMut_drop(c) == [c EXCEPT !.writing = FALSE]
\* cache_desc.borrow().f(): the Ref is a temporary of the statement.
borrow_call(c) == Ref_drop(RefCell_borrow(c))

\* ScrubAreaIterator::next that returns its address with the Ref cd still
\* alive (kept with the iterator): a mutant of ScrubAreaIterator_next_cell.
RECURSIVE ScrubAreaIterator_next_cell_kept(_, _)
ScrubAreaIterator_next_cell_kept(self, c) ==
    LET tested == borrow_call(c)
    IN  IF self.index = cache_lines THEN tested
        ELSE LET cd == RefCell_borrow(tested)
                 offset == self.index + self.offset
                 size == size_in_cachelines(self.scrub_area)
             IN  IF overflow_checks /\ (Overflows(offset) \/ size.overflow)
                 THEN Ref_drop(cd)
                 ELSE IF Wrap(offset) < size.val
                 THEN IF overflow_checks /\ Overflows(self.offset + cache_lines)
                      THEN Ref_drop(borrow_call(cd))
                      ELSE borrow_call(cd)
                 ELSE ScrubAreaIterator_next_cell_kept(
                          [self EXCEPT !.index = self.index + 1, !.offset = 0],
                          Ref_drop(cd))

\* The borrows of one call of ScrubAreaIterator::next on self, from the cell c:
\* the Ref of the test of line 746 is dropped with the test; the Ref cd of
\* line 760 lives to the end of the loop body, or to the return or the panic;
\* the Ref of line 769 is dropped with its statement.
RECURSIVE ScrubAreaIterator_next_cell(_, _)
ScrubAreaIterator_next_cell(self, c) ==
    LET tested == borrow_call(c)
    IN  IF self.index = cache_lines THEN tested
        ELSE LET cd == RefCell_borrow(tested)
                 offset == self.index + self.offset
                 size == size_in_cachelines(self.scrub_area)
             IN  IF overflow_checks /\ (Overflows(offset) \/ size.overflow)
                 THEN Ref_drop(cd)
                 ELSE IF Wrap(offset) < size.val
                 THEN IF overflow_checks /\ Overflows(self.offset + cache_lines)
                      THEN Ref_drop(borrow_call(cd))
                      ELSE Ref_drop(borrow_call(cd))
                 ELSE ScrubAreaIterator_next_cell(
                          [self EXCEPT !.index = self.index + 1, !.offset = 0],
                          Ref_drop(cd))

(***************************************************************************)
(* MemoryScrubberIterator                                                  *)
(***************************************************************************)
MemoryScrubberIterator_new == [iterator |-> None, index |-> 0]

\* MemoryScrubberIterator::next with the exhausted ScrubAreaIterator kept for
\* the next scrub area instead of dropped: a mutant of
\* MemoryScrubberIterator_next.
RECURSIVE MemoryScrubberIterator_next_stale(_)
MemoryScrubberIterator_next_stale(self) ==
    IF self.index = Len(scrub_areas)
    THEN [self |-> self, res |-> None, panic |-> FALSE, made |-> <<>>]
    ELSE LET fresh == is_none(self.iterator)
             it == IF fresh
                   THEN ScrubAreaIterator_new(scrub_areas[self.index + 1])
                   ELSE unwrap(self.iterator)
             made == IF fresh THEN <<self.index>> ELSE <<>>
             r == ScrubAreaIterator_next(it)
         IN  IF r.panic
             THEN [self |-> self, res |-> None, panic |-> TRUE, made |-> made]
             ELSE IF ~is_none(r.res)
             THEN [self |-> [self EXCEPT !.iterator = Some(r.self)],
                   res |-> r.res, panic |-> FALSE, made |-> made]
             ELSE LET rest == MemoryScrubberIterator_next_stale(
                                  [iterator |-> Some(r.self), index |-> self.index + 1])
                  IN  [rest EXCEPT !.made = made \o rest.made]

\* MemoryScrubberIterator::next that goes back to the first scrub area when it
\* returns None: a mutant of MemoryScrubberIterator_next.
RECURSIVE MemoryScrubberIterator_next_rewind(_)
MemoryScrubberIterator_next_rewind(self) ==
    IF self.index = Len(scrub_areas)
    THEN [self |-> [self EXCEPT !.index = 0], res |-> None, panic |-> FALSE,
          made |-> <<>>]
    ELSE LET fresh == is_none(self.iterator)
             it == IF fresh
                   THEN ScrubAreaIterator_new(scrub_areas[self.index + 1])
                   ELSE unwrap(self.iterator)
             made == IF fresh THEN <<self.index>> ELSE <<>>
             r == ScrubAreaIterator_next(it)
         IN  IF r.panic
             THEN [self |-> self, res |-> None, panic |-> TRUE, made |-> made]
             ELSE IF ~is_none(r.res)
             THEN [self |-> [self EXCEPT !.iterator = Some(r.self)],
                   res |-> r.res, panic |-> FALSE, made |-> made]
             ELSE LET rest == MemoryScrubberIterator_next_rewind(
                                  [iterator |-> None, index |-> self.index + 1])
                  IN  [rest EXCEPT !.made = made \o rest.made]

\* One call of MemoryScrubberIterator::next on self, over scrub_areas:
\* [self, res: Option<address>, panic, made: the indices of the scrub areas for
\* which the call made a ScrubAreaIterator, in order].
RECURSIVE MemoryScrubberIterator_next(_)
MemoryScrubberIterator_next(self) ==
    IF self.index = Len(scrub_areas)
    THEN [self |-> self, res |-> None, panic |-> FALSE, made |-> <<>>]
    ELSE LET fresh == is_none(self.iterator)
             it == IF fresh
                   THEN ScrubAreaIterator_new(scrub_areas[self.index + 1])
                   ELSE unwrap(self.iterator)
             made == IF fresh THEN <<self.index>> ELSE <<>>
             r == ScrubAreaIterator_next(it)
         IN  IF r.panic
             THEN [self |-> self, res |-> None, panic |-> TRUE, made |-> made]
             ELSE IF ~is_none(r.res)
             THEN [self |-> [self EXCEPT !.iterator = Some(r.self)],
                   res |-> r.res, panic |-> FALSE, made |-> made]
             ELSE LET rest == MemoryScrubberIterator_next(
                                  [iterator |-> None, index |-> self.index + 1])
                  IN  [rest EXCEPT !.made = made \o rest.made]

\* The borrows of one call of MemoryScrubberIterator::next on self, from the
\* cell c: it borrows nothing itself (line 687 clones the Rc), its
\* ScrubAreaIterators do.
RECURSIVE MemoryScrubberIterator_next_cell(_, _)
MemoryScrubberIterator_next_cell(self, c) ==
    IF self.index = Len(scrub_areas) THEN c
    ELSE LET it == IF is_none(self.iterator)
                   THEN ScrubAreaIterator_new(scrub_areas[self.index + 1])
                   ELSE unwrap(self.iterator)
             r == ScrubAreaIterator_next(it)
             after == ScrubAreaIterator_next_cell(it, c)
         IN  IF r.panic \/ ~is_none(r.res) THEN after
             ELSE MemoryScrubberIterator_next_cell(
                      [iterator |-> None, index |-> self.index + 1], after)

(***************************************************************************)
(* MemoryScrubber                                                          *)
(***************************************************************************)
\* The checks of one ScrubArea without the check of its end: a mutant of
\* check_scrub_area.
check_scrub_area_no_end(scrub_area) ==
    IF scrub_area.start = scrub_area.end THEN "EmptyScrubArea"
    ELSE IF scrub_area.start % cacheline_size # 0 THEN "UnalignedStart"
    ELSE "Ok"

\* The checks of one ScrubArea with the check of emptiness made last, after the
\* two alignments: a mutant of check_scrub_area.
check_scrub_area_empty_last(scrub_area) ==
    IF scrub_area.start % cacheline_size # 0 THEN "UnalignedStart"
    ELSE IF scrub_area.end % cacheline_size # cacheline_size - 1 THEN "UnalignedEnd"
    ELSE IF scrub_area.start = scrub_area.end THEN "EmptyScrubArea"
    ELSE "Ok"

\* The checks of one ScrubArea without the check of emptiness: a mutant of
\* check_scrub_area.
check_scrub_area_no_empty(scrub_area) ==
    IF scrub_area.start % cacheline_size # 0 THEN "UnalignedStart"
    ELSE IF scrub_area.end % cacheline_size # cacheline_size - 1 THEN "UnalignedEnd"
    ELSE "Ok"

\* The checks of one ScrubArea with the end compared with the first byte of a
\* cache line instead of the last: a mutant of check_scrub_area.
check_scrub_area_end_first(scrub_area) ==
    IF scrub_area.start = scrub_area.end THEN "EmptyScrubArea"
    ELSE IF scrub_area.start % cacheline_size # 0 THEN "UnalignedStart"
    ELSE IF scrub_area.end % cacheline_size # 0 THEN "UnalignedEnd"
    ELSE "Ok"

\* The checks of one ScrubArea in MemoryScrubber::new, in the order of the code.
check_scrub_area(scrub_area) ==
    IF scrub_area.start = scrub_area.end THEN "EmptyScrubArea"
    ELSE IF scrub_area.start % cacheline_size # 0 THEN "UnalignedStart"
    ELSE IF scrub_area.end % cacheline_size # cacheline_size - 1 THEN "UnalignedEnd"
    ELSE "Ok"

\* The for loop of MemoryScrubber::new that goes on after an error and returns
\* the last one: a mutant of check_scrub_areas.
RECURSIVE check_scrub_areas_last(_, _)
check_scrub_areas_last(areas, i) ==
    IF i > Len(areas) THEN "Ok"
    ELSE IF check_scrub_areas_last(areas, i + 1) # "Ok"
    THEN check_scrub_areas_last(areas, i + 1)
    ELSE check_scrub_area(areas[i])

\* The for loop of MemoryScrubber::new from the i-th area on.
RECURSIVE check_scrub_areas(_, _)
check_scrub_areas(areas, i) ==
    IF i > Len(areas) THEN "Ok"
    ELSE IF check_scrub_area(areas[i]) # "Ok" THEN check_scrub_area(areas[i])
    ELSE check_scrub_areas(areas, i + 1)

\* The Result of MemoryScrubber::new without the check of the length of the
\* list: a mutant of new_result.
new_result_no_length(areas) == check_scrub_areas(areas, 1)

\* The Result of MemoryScrubber::new: "Ok" or the Error.
new_result(areas) ==
    IF Len(areas) = 0 THEN "NoScrubAreas" ELSE check_scrub_areas(areas, 1)

\* read_cacheline(ptr) of the cache descriptor: the read is counted.
read_cacheline(ptr) ==
    /\ touched' = Append(touched, ptr)
    /\ n_reads' = [a \in DOMAIN n_reads \cup {ptr} |->
                     IF a = ptr
                     THEN (IF a \in DOMAIN n_reads THEN n_reads[a] ELSE 0) + 1
                     ELSE n_reads[a]]

\* One turn of the inner loop of scrub on the scrubber's iterator it:
\* a MemoryScrubberIterator is made if there is none, next() is called, and on
\* None the iterator is dropped.
\* [iterator, res, panic, created: a MemoryScrubberIterator was made, made,
\* area: the index of the scrub area the address is in].
scrub_fetch(it) ==
    LET created == is_none(it)
        cur == IF created THEN MemoryScrubberIterator_new ELSE unwrap(it)
        r == MemoryScrubberIterator_next(cur)
    IN  [iterator |-> IF r.panic THEN Some(cur)
                      ELSE IF is_none(r.res) THEN None ELSE Some(r.self),
         res |-> r.res, panic |-> r.panic, created |-> created, made |-> r.made,
         area |-> r.self.index]

\* The borrows of that turn of the inner loop, from the cell c.
scrub_fetch_cell(it, c) ==
    MemoryScrubberIterator_next_cell(
        IF is_none(it) THEN MemoryScrubberIterator_new ELSE unwrap(it), c)

\* scrub, lines 605-611: cacheline_width() and cacheline_size() are read, each
\* through a Ref that is dropped at the end of its block.
scrub_cell(c) == borrow_call(borrow_call(c))

\* scrub, lines 646-648: the RefMut cd is taken for read_cacheline and dropped
\* at the end of the body of the for loop.
touch_cell(c) == RefMut_drop(RefCell_borrow_mut(c))

\* The body of the for loop of scrub (lines 621-648) as a function of the
\* scrubber's state st = [iterator, touched, ok]: the inner loop runs until it
\* has an address, which is read.  ok is FALSE when the loop panics, or never
\* ends because a new MemoryScrubberIterator has no address at all.
RECURSIVE scrub_line(_)
scrub_line(st) ==
    LET r == scrub_fetch(st.iterator)
    IN  IF r.panic THEN [st EXCEPT !.ok = FALSE]
        ELSE IF is_none(r.res)
        THEN (IF r.created THEN [st EXCEPT !.ok = FALSE]
              ELSE scrub_line([st EXCEPT !.iterator = None]))
        ELSE [iterator |-> r.iterator,
              touched |-> Append(st.touched, unwrap(r.res)),
              ok |-> TRUE]

\* The for loop of scrub over lines cache lines, as a function of the state.
RECURSIVE scrub_lines(_, _)
scrub_lines(st, lines) ==
    IF lines = 0 \/ ~st.ok THEN st ELSE scrub_lines(scrub_line(st), lines - 1)

Addrs == 0 .. MaxAddr
ScrubAreas == [start : Addrs, end : Addrs]
AreaLists == UNION {[1 .. n -> ScrubAreas] : n \in 0 .. MaxAreas}

\* MemoryScrubber::new that makes the MemoryScrubberIterator at once: a mutant
\* of MemoryScrubber_new.
MemoryScrubber_new_eager(areas) ==
    /\ pc = "start"
    /\ args' = areas
    /\ result' = new_result(areas)
    /\ IF new_result(areas) = "Ok"
       THEN /\ scrub_areas' = areas
            /\ iterator' = Some(MemoryScrubberIterator_new)
            /\ pc' = "idle"
       ELSE /\ pc' = "failed"
            /\ UNCHANGED <<scrub_areas, iterator>>
    /\ UNCHANGED <<todo, p, requested, visits, pass_lines, prev, chunks>>
    /\ UNCHANGED <<cache_vars, area_vars>>
    /\ UNCHANGED cell

\* MemoryScrubber::new whose error is dropped by its caller, which goes on with
\* the scrubber: a mutant of MemoryScrubber_new.
MemoryScrubber_new_unchecked(areas) ==
    /\ pc = "start"
    /\ args' = areas
    /\ result' = "Ok"
    /\ scrub_areas' = areas
    /\ iterator' = None
    /\ pc' = "idle"
    /\ UNCHANGED <<todo, p, requested, visits, pass_lines, prev, chunks>>
    /\ UNCHANGED <<cache_vars, area_vars>>
    /\ UNCHANGED cell

\* MemoryScrubber::new(cache_desc, areas)
MemoryScrubber_new(areas) ==
    /\ pc = "start"
    /\ args' = areas
    /\ result' = new_result(areas)
    /\ IF new_result(areas) = "Ok"
       THEN /\ scrub_areas' = areas
            /\ iterator' = None
            /\ pc' = "idle"
       ELSE /\ pc' = "failed"
            /\ UNCHANGED <<scrub_areas, iterator>>
    /\ UNCHANGED <<todo, p, requested, visits, pass_lines, prev, chunks>>
    /\ UNCHANGED <<cache_vars, area_vars>>
    /\ UNCHANGED cell

\* scrub(n) that begins every call with no iterator, so that every call starts
\* a new pass: a mutant of MemoryScrubber_scrub.
MemoryScrubber_scrub_restart(n) ==
    /\ pc = "idle"
    /\ IF n % cacheline_size # 0
       THEN /\ result' = "UnalignedSize"
            /\ UNCHANGED <<pc, todo, requested, iterator>>
       ELSE /\ requested + n \div (2 ^ cacheline_width) <= MaxLines
            /\ todo' = n \div (2 ^ cacheline_width)
            /\ requested' = requested + n \div (2 ^ cacheline_width)
            /\ result' = "running"
            /\ iterator' = None
            /\ pc' = "for"
    /\ UNCHANGED <<args, scrub_areas, p, visits, pass_lines>>
    /\ UNCHANGED <<cache_vars, area_vars>>
    /\ cell' = scrub_cell(cell)

\* scrub(n) without the check of the size, which scrubs the whole cache lines of
\* n: a mutant of MemoryScrubber_scrub.
MemoryScrubber_scrub_truncate(n) ==
    /\ pc = "idle"
    /\ requested + n \div (2 ^ cacheline_width) <= MaxLines
    /\ todo' = n \div (2 ^ cacheline_width)
    /\ requested' = requested + n \div (2 ^ cacheline_width)
    /\ result' = "running"
    /\ pc' = "for"
    /\ UNCHANGED <<args, scrub_areas, iterator, p, visits, pass_lines>>
    /\ UNCHANGED <<cache_vars, area_vars>>
    /\ cell' = scrub_cell(cell)

\* scrub(n), lines 604-619: the size check and the number of cache lines.
\* (prev and chunks, the history of the calls, are left to the specification.)
MemoryScrubber_scrub(n) ==
    /\ pc = "idle"
    /\ IF n % cacheline_size # 0
       THEN /\ result' = "UnalignedSize"
            /\ UNCHANGED <<pc, todo, requested>>
       ELSE /\ requested + n \div (2 ^ cacheline_width) <= MaxLines
            /\ todo' = n \div (2 ^ cacheline_width)
            /\ requested' = requested + n \div (2 ^ cacheline_width)
            /\ result' = "running"
            /\ pc' = "for"
    /\ UNCHANGED <<args, scrub_areas, iterator, p, visits, pass_lines>>
    /\ UNCHANGED <<cache_vars, area_vars>>
    /\ cell' = scrub_cell(cell)

\* scrub, line 621 and 651: the next turn of the for loop, or Ok(()).
scrub_for ==
    /\ pc = "for"
    /\ IF todo = 0
       THEN /\ result' = "Ok"
            /\ pc' = "idle"
       ELSE /\ pc' = "loop"
            /\ UNCHANGED result
    /\ UNCHANGED <<args, scrub_areas, iterator, todo, p, requested, visits, pass_lines, prev, chunks>>
    /\ UNCHANGED <<cache_vars, area_vars>>
    /\ UNCHANGED cell

\* The inner loop of scrub that gives up with Error::IteratorFailed when a
\* MemoryScrubberIterator it has just made returns None: a mutant of scrub_loop.
scrub_loop_failed ==
    /\ pc = "loop"
    /\ LET r == scrub_fetch(iterator)
           failed == ~r.panic /\ is_none(r.res) /\ r.created
       IN  /\ iterator' = r.iterator
           /\ visits' = (IF r.created THEN <<>> ELSE visits) \o r.made
           /\ pass_lines' = (IF r.created THEN <<>> ELSE pass_lines) \o
                             (IF r.panic \/ is_none(r.res) THEN <<>> ELSE <<r.area>>)
           /\ p' = r.res
           /\ pc' = IF r.panic THEN "panic"
                    ELSE IF failed THEN "idle"
                    ELSE IF is_none(r.res) THEN "loop" ELSE "touch"
           /\ result' = IF r.panic THEN "panic"
                        ELSE IF failed THEN "IteratorFailed" ELSE result
    /\ UNCHANGED <<args, scrub_areas, todo, requested, prev, chunks>>
    /\ UNCHANGED <<cache_vars, area_vars>>
    /\ cell' = scrub_fetch_cell(iterator, cell)

\* scrub whose inner loop drops the first region of the list when it makes a
\* new MemoryScrubberIterator: a mutant of scrub_loop.
scrub_loop_consume ==
    /\ pc = "loop"
    /\ LET r == scrub_fetch(iterator)
       IN  /\ iterator' = r.iterator
           /\ visits' = (IF r.created THEN <<>> ELSE visits) \o r.made
           /\ pass_lines' = (IF r.created THEN <<>> ELSE pass_lines) \o
                             (IF r.panic \/ is_none(r.res) THEN <<>> ELSE <<r.area>>)
           /\ p' = r.res
           /\ pc' = IF r.panic THEN "panic"
                    ELSE IF is_none(r.res) THEN "loop" ELSE "touch"
           /\ result' = IF r.panic THEN "panic" ELSE result
           /\ scrub_areas' = IF r.created /\ Len(scrub_areas) > 1
                             THEN Tail(scrub_areas) ELSE scrub_areas
    /\ UNCHANGED <<args, todo, requested, prev, chunks>>
    /\ UNCHANGED <<cache_vars, area_vars>>
    /\ cell' = scrub_fetch_cell(iterator, cell)

\* scrub, lines 626-644: one turn of the inner loop.
scrub_loop ==
    /\ pc = "loop"
    /\ LET r == scrub_fetch(iterator)
       IN  /\ iterator' = r.iterator
           /\ visits' = (IF r.created THEN <<>> ELSE visits) \o r.made
           /\ pass_lines' = (IF r.created THEN <<>> ELSE pass_lines) \o
                             (IF r.panic \/ is_none(r.res) THEN <<>> ELSE <<r.area>>)
           /\ p' = r.res
           /\ pc' = IF r.panic THEN "panic"
                    ELSE IF is_none(r.res) THEN "loop" ELSE "touch"
           /\ result' = IF r.panic THEN "panic" ELSE result
    /\ UNCHANGED <<args, scrub_areas, todo, requested, prev, chunks>>
    /\ UNCHANGED <<cache_vars, area_vars>>
    /\ cell' = scrub_fetch_cell(iterator, cell)

\* scrub that does not read the first address of a pass, the one it gets from
\* a MemoryScrubberIterator it has just made: a mutant of scrub_touch.
scrub_touch_drop ==
    /\ pc = "touch"
    /\ IF Len(pass_lines) = 1
       THEN UNCHANGED <<touched, n_reads>>
       ELSE read_cacheline(unwrap(p))
    /\ todo' = todo - 1
    /\ p' = None
    /\ pc' = "for"
    /\ UNCHANGED <<cacheline_width, cache_index_width, overflow_checks>>
    /\ UNCHANGED <<args, result, scrub_areas, iterator, requested, visits, pass_lines, prev, chunks>>
    /\ UNCHANGED area_vars
    /\ cell' = touch_cell(cell)

\* scrub, lines 646-647: the cache line is read.
scrub_touch ==
    /\ pc = "touch"
    /\ read_cacheline(unwrap(p))
    /\ todo' = todo - 1
    /\ p' = None
    /\ pc' = "for"
    /\ UNCHANGED <<cacheline_width, cache_index_width, overflow_checks>>
    /\ UNCHANGED <<args, result, scrub_areas, iterator, requested, visits, pass_lines, prev, chunks>>
    /\ UNCHANGED area_vars
    /\ cell' = touch_cell(cell)

CacheInit ==
    /\ cacheline_width \in 1 .. MaxCachelineWidth
    /\ cache_index_width \in 0 .. MaxCacheIndexWidth
    /\ overflow_checks \in BOOLEAN
    /\ n_reads = <<>>
    /\ touched = <<>>
    /\ cell = Unused

\* No ScrubAreaIterator is iterated on its own.
AreaOff ==
    /\ area_iter = None
    /\ area_res = "off"
    /\ emitted = <<>>

\* No MemoryScrubber is made.
ScrubOff ==
    /\ pc = "off"
    /\ args = <<>>
    /\ result = "none"
    /\ scrub_areas = <<>>
    /\ iterator = None
    /\ todo = 0
    /\ p = None
    /\ requested = 0
    /\ visits = <<>>
    /\ pass_lines = <<>>
    /\ prev = <<>>
    /\ chunks = <<>>

Init ==
    /\ CacheInit
    /\ AreaOff
    /\ pc = "start"
    /\ args = <<>>
    /\ result = "none"
    /\ scrub_areas = <<>>
    /\ iterator = None
    /\ todo = 0
    /\ p = None
    /\ requested = 0
    /\ visits = <<>>
    /\ pass_lines = <<>>
    /\ prev = <<>>
    /\ chunks = <<>>

Next ==
    \/ pc = "start" /\ \E areas \in AreaLists : MemoryScrubber_new(areas)
    \/ pc = "idle" /\ \E n \in 0 .. MaxScrubBytes : MemoryScrubber_scrub(n) /\ UNCHANGED <<prev, chunks>>
    \/ scrub_for
    \/ scrub_loop
    \/ scrub_touch

Spec == Init /\ [][Next]_vars

(***************************************************************************)
(* The same scrubber, with the history of its last two accepted scrub      *)
(* calls: the scrubber's state when each began, and its size in lines.     *)
(***************************************************************************)
RecordCall ==
    prev' = IF pc' = "for"
            THEN (IF Len(prev) = 2 THEN <<prev[2]>> ELSE prev) \o
                 <<[iterator |-> iterator, touched |-> touched, lines |-> todo']>>
            ELSE prev

ResumeNext ==
    \/ pc = "start" /\ \E areas \in AreaLists : MemoryScrubber_new(areas)
    \/ pc = "idle" /\ \E n \in 0 .. MaxScrubBytes : MemoryScrubber_scrub(n) /\ RecordCall /\ UNCHANGED chunks
    \/ scrub_for
    \/ scrub_loop
    \/ scrub_touch

ResumeSpec == Init /\ [][ResumeNext]_vars

(***************************************************************************)
(* The same scrubber, with the history of its last scrub call, accepted or *)
(* not: the size it was given and the scrubber's state when it began.      *)
(***************************************************************************)
RecordSize(n) ==
    prev' = <<[n |-> n, iterator |-> iterator, touched |-> touched]>>

SizeNext ==
    \/ pc = "start" /\ \E areas \in AreaLists : MemoryScrubber_new(areas)
    \/ pc = "idle" /\ \E n \in 0 .. MaxScrubBytes : MemoryScrubber_scrub(n) /\ RecordSize(n) /\ UNCHANGED chunks
    \/ scrub_for
    \/ scrub_loop
    \/ scrub_touch

SizeSpec == Init /\ [][SizeNext]_vars

(***************************************************************************)
(* BaseAutoScrub::autoscrub: MemoryScrubber::new, then the loop that asks   *)
(* desc.next() for a size and scrubs it. Between two scrub calls pc is      *)
(* "idle"; "failed" is the return of the error of new, "done" any later     *)
(* return. prev holds the sizes given to scrub, in order.                   *)
(***************************************************************************)
\* autoscrub, lines 533-538: desc.next() returns n; Ok(n) is returned when n
\* is zero, else scrub(n) is called.
autoscrub_next(n) ==
    /\ pc = "idle"
    /\ result = "Ok"
    /\ n = 0 \/ Len(chunks) < MaxChunks
    /\ chunks' = Append(chunks, n)
    /\ IF n = 0
       THEN /\ pc' = "done"
            /\ result' = "Ok"
            /\ UNCHANGED <<args, scrub_areas, iterator, todo, p, requested, visits,
                           pass_lines, prev>>
            /\ UNCHANGED <<cache_vars, area_vars, cell>>
       ELSE /\ MemoryScrubber_scrub(n)
            /\ prev' = Append(prev, n)

\* autoscrub that drops the error of scrub and goes on with the loop: a mutant
\* of autoscrub_err.
autoscrub_err_ignored ==
    /\ pc = "idle"
    /\ result = "UnalignedSize"
    /\ result' = "Ok"
    /\ UNCHANGED <<pc, args, scrub_areas, iterator, todo, p, requested, visits,
                   pass_lines, prev, chunks>>
    /\ UNCHANGED <<cache_vars, area_vars>>
    /\ UNCHANGED cell

\* autoscrub, line 538: the ? after scrub(n) returns the error of scrub.
autoscrub_err ==
    /\ pc = "idle"
    /\ result = "UnalignedSize"
    /\ pc' = "done"
    /\ UNCHANGED <<args, result, scrub_areas, iterator, todo, p, requested, visits,
                   pass_lines, prev, chunks>>
    /\ UNCHANGED <<cache_vars, area_vars>>
    /\ UNCHANGED cell

\* The inner loop of scrub has made a MemoryScrubberIterator that returns None
\* at once: its next turn begins in the same state, and scrub never returns.
Spinning ==
    /\ pc = "loop"
    /\ LET r == scrub_fetch(iterator)
       IN  ~r.panic /\ is_none(r.res) /\ r.created

AutoNext ==
    \/ pc = "start" /\ \E areas \in AreaLists : MemoryScrubber_new(areas)
    \/ pc = "idle" /\ \E n \in 0 .. MaxScrubBytes : autoscrub_next(n)
    \/ autoscrub_err
    \/ scrub_for
    \/ scrub_loop
    \/ scrub_touch

AutoSpec == Init /\ [][AutoNext]_vars

(***************************************************************************)
(* A ScrubAreaIterator iterated on its own, over a ScrubArea that passes   *)
(* the checks of MemoryScrubber::new.                                      *)
(***************************************************************************)
AreaAddrs == 0 .. AreaMaxAddr

\* The cache descriptor of a ScrubAreaIterator iterated on its own: its cache
\* may have more sets than a region has lines.
AreaCacheInit ==
    /\ cacheline_width \in 1 .. MaxCachelineWidth
    /\ cache_index_width \in 0 .. AreaMaxCacheIndexWidth
    /\ overflow_checks \in BOOLEAN
    /\ n_reads = <<>>
    /\ touched = <<>>
    /\ cell = Unused

AreaInit ==
    /\ AreaCacheInit
    /\ ScrubOff
    /\ \E a \in [start : AreaAddrs, end : AreaAddrs] :
          /\ check_scrub_area(a) = "Ok"
          /\ area_iter = Some(ScrubAreaIterator_new(a))
    /\ area_res = "new"
    /\ emitted = <<>>

\* One call of next() on the iterator.
AreaNext ==
    /\ area_res # "panic"
    /\ Len(emitted) < MaxEmit
    /\ LET r == ScrubAreaIterator_next(unwrap(area_iter))
       IN  /\ area_iter' = Some(r.self)
           /\ area_res' = IF r.panic THEN "panic"
                          ELSE IF is_none(r.res) THEN "None" ELSE "Some"
           /\ emitted' = IF r.panic \/ is_none(r.res) THEN emitted
                         ELSE Append(emitted, <<r.index, unwrap(r.res)>>)
    /\ UNCHANGED <<cache_vars, scrub_vars>>
    /\ cell' = ScrubAreaIterator_next_cell(unwrap(area_iter), cell)

AreaSpec == AreaInit /\ [][AreaNext]_vars

(***************************************************************************)
(* An iterator of either kind iterated on its own: a ScrubAreaIterator as  *)
(* above, or a MemoryScrubberIterator over a list of ScrubAreas that pass  *)
(* the checks of MemoryScrubber::new. The iterator is called again after   *)
(* it has returned None.                                                   *)
(***************************************************************************)
IterAddrs == 0 .. IterMaxAddr
IterAreas == {a \in [start : IterAddrs, end : IterAddrs] : check_scrub_area(a) = "Ok"}
IterLists == UNION {[1 .. n -> IterAreas] : n \in 1 .. MaxAreas}

MultiInit ==
    /\ CacheInit
    /\ area_iter = None
    /\ area_res = "new"
    /\ emitted = <<>>
    /\ pc = "off"
    /\ \E areas \in IterLists :
          /\ args = areas
          /\ scrub_areas = areas
    /\ iterator = Some(MemoryScrubberIterator_new)
    /\ result = "none"
    /\ todo = 0
    /\ p = None
    /\ requested = 0
    /\ visits = <<>>
    /\ pass_lines = <<>>
    /\ prev = <<>>
    /\ chunks = <<>>

\* One call of next() on the MemoryScrubberIterator; emitted takes
\* <<index of the ScrubAreaIterator, address, index of the scrub area>>.
MultiNext ==
    /\ ~is_none(iterator)
    /\ area_res # "panic"
    /\ Len(emitted) < MaxEmit
    /\ LET r == MemoryScrubberIterator_next(unwrap(iterator))
       IN  /\ iterator' = Some(r.self)
           /\ area_res' = IF r.panic THEN "panic"
                          ELSE IF is_none(r.res) THEN "None" ELSE "Some"
           /\ emitted' = IF r.panic \/ is_none(r.res) THEN emitted
                         ELSE Append(emitted, <<unwrap(r.self.iterator).index,
                                               unwrap(r.res), r.self.index>>)
    /\ UNCHANGED <<args, pc, result, scrub_areas, todo, p, requested, visits, pass_lines,
                   prev, chunks>>
    /\ UNCHANGED <<cache_vars, area_iter>>
    /\ cell' = MemoryScrubberIterator_next_cell(unwrap(iterator), cell)

IterInit == AreaInit \/ MultiInit

IterNext ==
    \/ ~is_none(area_iter) /\ AreaNext
    \/ MultiNext

IterSpec == IterInit /\ [][IterNext]_vars

(***************************************************************************)
(* What the properties speak of.                                           *)
(***************************************************************************)
\* The cache lines of a region: the aligned addresses whose whole line lies
\* in [start, end].  A region whose end is below its start has none.
LinesOf(a) ==
    {x \in a.start .. a.end : x % cacheline_size = 0 /\ x + cacheline_size - 1 <= a.end}

\* The region of the ScrubAreaIterator iterated on its own, and what it emitted.
the_area == unwrap(area_iter).scrub_area
emit_addr(i) == emitted[i][2]
emit_index(i) == emitted[i][1]
Emits == 1 .. Len(emitted)
AtEOF == area_res = "None"

\* The cache set of the i-th emitted address, counted from the set of start.
rel_set(i) ==
    (cache_index(emit_addr(i)) + cache_lines - cache_index(the_area.start)) % cache_lines

\* b_k: the number of emitted addresses in the sets before the k-th.  When the
\* emitted sequence has a partition into L runs of which the k-th holds only
\* addresses of set (cache_index_of(start) + k) mod L, its boundaries are these.
Boundary(k) == Cardinality({i \in Emits : rel_set(i) < k})

\* The runs [b_k, b_k+1) hold the addresses of set (cache_index_of(start) + k) mod L.
Grouped ==
    /\ Boundary(0) = 0
    /\ Boundary(cache_lines) = Len(emitted)
    /\ \A k \in 0 .. cache_lines - 1 :
          \A i \in Emits :
             (Boundary(k) < i /\ i <= Boundary(k + 1)) =>
                cache_index(emit_addr(i)) =
                   (cache_index(the_area.start) + k) % cache_lines

(***************************************************************************)
(* C1. Coverage: iterating a fresh ScrubAreaIterator over a valid region   *)
(* until EOF emits every cache line of the region exactly once, and every  *)
(* emitted address is cache-line aligned and lies in [start, end].         *)
(***************************************************************************)
Coverage ==
    /\ \A i \in Emits :
          /\ emit_addr(i) % cacheline_size = 0
          /\ the_area.start <= emit_addr(i)
          /\ emit_addr(i) <= the_area.end
    /\ \A i, j \in Emits : i # j => emit_addr(i) # emit_addr(j)
    /\ AtEOF => {emit_addr(i) : i \in Emits} = LinesOf(the_area)

C1_Coverage == area_res # "off" => Coverage

\* The same for the regions whose start is below their end: it holds.
C1_CoverageOfOrderedRegions ==
    (area_res # "off" /\ the_area.start < the_area.end) => Coverage

(***************************************************************************)
(* C5. Cache-index grouping.  As claimed: the emitted sequence of a        *)
(* complete iteration has a partition 0 = b_0 < b_1 < ... < b_L = |R| with *)
(* strictly increasing boundaries, the k-th run holding the addresses of   *)
(* cache set (cache_index_of(start) + k) mod L.  (Stated for the regions   *)
(* with start < end only, so that the refutation rests on no region of     *)
(* zero lines.)                                                            *)
(***************************************************************************)
C5_GroupingStrict ==
    (AtEOF /\ the_area.start < the_area.end) =>
        /\ Grouped
        /\ \A k \in 0 .. cache_lines - 1 : Boundary(k) < Boundary(k + 1)

\* C5 as amended: the boundaries are non-decreasing, 0 = b_0 <= b_1 <= ... <=
\* b_L = |R|: a set in which the region has no line contributes an empty run.
C5_Grouping ==
    AtEOF =>
        /\ Grouped
        /\ \A k \in 0 .. cache_lines - 1 : Boundary(k) <= Boundary(k + 1)

\* A complete iteration over several sets, one of them with two lines or more.
C5_Witness ==
    /\ AtEOF
    /\ cache_lines > 1
    /\ Len(emitted) > cache_lines

(***************************************************************************)
(* C6. Intra-set monotonicity: within one region's iteration the addresses *)
(* emitted for one value of the iterator's index strictly increase.        *)
(***************************************************************************)
C6_IntraSetMonotone ==
    \A i, j \in Emits :
       (i < j /\ emit_index(i) = emit_index(j)) => emit_addr(i) < emit_addr(j)

\* Two addresses have been emitted for one index.
C6_Witness ==
    \E i, j \in Emits : i < j /\ emit_index(i) = emit_index(j)

(***************************************************************************)
(* The canonical pass over the regions of the scrubber.                    *)
(***************************************************************************)
\* The place of line x in the cache-index-major order of region a: the lines
\* of the sets before its own (counted from the set of start), then the lines
\* of its own set at lower addresses.
set_of(a, x) == (cache_index(x) + cache_lines - cache_index(a.start)) % cache_lines
Rank(a, x) ==
    1 + Cardinality({y \in LinesOf(a) :
                        \/ set_of(a, y) < set_of(a, x)
                        \/ set_of(a, y) = set_of(a, x) /\ y < x})

\* The cache-index-major sequence of region a.
CanonRegion(a) ==
    [i \in 1 .. Cardinality(LinesOf(a)) |-> CHOOSE x \in LinesOf(a) : Rank(a, x) = i]

\* Region 0's sequence, then region 1's, and so on.
RECURSIVE CanonFrom(_)
CanonFrom(i) ==
    IF i > Len(scrub_areas) THEN <<>> ELSE CanonRegion(scrub_areas[i]) \o CanonFrom(i + 1)
CanonPass == CanonFrom(1)

\* T: the cache lines of all the regions.
TotalLines == Len(CanonPass)

\* The i-th element of the infinite repetition of the canonical pass.
CanonAt(i) == CanonPass[((i - 1) % TotalLines) + 1]

\* Every region of the scrubber has its start below its end.
OrderedRegions == \A i \in 1 .. Len(scrub_areas) : scrub_areas[i].start < scrub_areas[i].end

(***************************************************************************)
(* C2. After successful scrub calls totalling m cache lines on a fresh     *)
(* scrubber, exactly m addresses have been read, and they are the first m  *)
(* elements of the infinite repetition of the canonical pass.              *)
(***************************************************************************)
CanonicalOrder ==
    /\ pc = "idle" => Len(touched) = requested
    /\ \A i \in 1 .. Len(touched) : TotalLines > 0 /\ touched[i] = CanonAt(i)

C2_CanonicalOrder == CanonicalOrder

\* The same for the scrubbers whose regions all have start < end: it holds.
C2_CanonicalOrderOfOrderedRegions == OrderedRegions => CanonicalOrder

(***************************************************************************)
(* C3. Resumability: scrub(n1) then scrub(n2) reads the same addresses in  *)
(* the same order, and leaves the same next position, as one               *)
(* scrub(n1 + n2) from the same state.                                     *)
(***************************************************************************)
C3_Resumable ==
    (pc = "idle" /\ Len(prev) = 2) =>
        LET one == scrub_lines([iterator |-> prev[1].iterator,
                                touched |-> prev[1].touched, ok |-> TRUE],
                               prev[1].lines + prev[2].lines)
        IN  /\ one.ok
            /\ one.touched = touched
            /\ one.iterator = iterator

\* Two calls of at least one line each have returned, the first of which began
\* in the middle of a pass and the second of which went on into the next pass.
C3_Witness ==
    /\ pc = "idle"
    /\ Len(prev) = 2
    /\ prev[1].lines > 0
    /\ prev[2].lines > 1
    /\ ~is_none(prev[1].iterator)
    /\ ~is_none(prev[2].iterator)
    /\ Len(pass_lines) = 1

(***************************************************************************)
(* C4. Wrap: on a fresh scrubber, once exactly T lines have been read, the *)
(* next line read is the first line (the address start) of the first       *)
(* region, and scrubbing more than the regions hold is not an error.       *)
(***************************************************************************)
Wraps ==
    /\ Len(touched) > TotalLines => touched[TotalLines + 1] = scrub_areas[1].start
    /\ pc = "idle" => result \in {"Ok", "UnalignedSize"}

C4_Wrap == pc \notin {"start", "failed"} => Wraps

\* The same for the scrubbers whose regions all have start < end: it holds.
C4_WrapOfOrderedRegions == (pc \notin {"start", "failed"} /\ OrderedRegions) => Wraps

(***************************************************************************)
(* C7. Multi-region order: within one pass the regions are visited in list *)
(* order, none skipped and none twice, and every line of region i is       *)
(* emitted before any line of region i + 1.                                *)
(***************************************************************************)
\* A pass has ended: the scrubber dropped its iterator and made no new one yet.
PassEnded == is_none(iterator) /\ visits # <<>>

C7_RegionOrder ==
    /\ \A j \in 1 .. Len(visits) : visits[j] = j - 1
    /\ Len(visits) <= Len(scrub_areas)
    /\ PassEnded => Len(visits) = Len(scrub_areas)
    /\ \A i, j \in 1 .. Len(pass_lines) : i < j => pass_lines[i] <= pass_lines[j]
    /\ \A i \in 1 .. Len(pass_lines) :
          \E j \in 1 .. Len(visits) : visits[j] = pass_lines[i]

\* A pass over two regions has ended, both of which gave lines.
C7_Witness ==
    /\ PassEnded
    /\ Len(scrub_areas) = 2
    /\ \E i, j \in 1 .. Len(pass_lines) : pass_lines[i] = 0 /\ pass_lines[j] = 1

(***************************************************************************)
(* C8. Read counts: after a fresh scrubber has scrubbed m lines over       *)
(* regions of T lines in total, every line has been read floor(m / T)      *)
(* times, and once more if it is among the first m mod T lines of the      *)
(* canonical pass.  (A line that is in two regions is counted at each of   *)
(* its places in the pass.)                                                *)
(***************************************************************************)
reads(a) == IF a \in DOMAIN n_reads THEN n_reads[a] ELSE 0

RECURSIVE SumOver(_, _)
SumOver(f, S) ==
    IF S = {} THEN 0 ELSE LET x == CHOOSE x \in S : TRUE IN f[x] + SumOver(f, S \ {x})

ExpectedReads(a) ==
    LET places == {k \in 1 .. TotalLines : CanonPass[k] = a}
        count == [k \in places |->
                    requested \div TotalLines +
                    (IF k <= requested % TotalLines THEN 1 ELSE 0)]
    IN  SumOver(count, places)

ReadCounts ==
    pc = "idle" =>
        IF TotalLines = 0 THEN DOMAIN n_reads = {}
        ELSE \A a \in DOMAIN n_reads \cup {CanonPass[k] : k \in 1 .. TotalLines} :
                reads(a) = ExpectedReads(a)

C8_ReadCounts == ReadCounts

\* The same for the scrubbers whose regions all have start < end: it holds.
C8_ReadCountsOfOrderedRegions == OrderedRegions => ReadCounts

(***************************************************************************)
(* C9. Every address given to read_cacheline is cache-line aligned and     *)
(* lies in [start, end] of one of the scrubber's regions.                  *)
(***************************************************************************)
InRegions ==
    \A i \in 1 .. Len(touched) :
       /\ touched[i] % cacheline_size = 0
       /\ \E r \in 1 .. Len(scrub_areas) :
             scrub_areas[r].start <= touched[i] /\ touched[i] <= scrub_areas[r].end

C9_InRegions == InRegions

\* The same for the scrubbers whose regions all have start < end: it holds.
C9_InRegionsOfOrderedRegions == OrderedRegions => InRegions

(***************************************************************************)
(* C10. MemoryScrubber::new returns a scrubber if and only if the list is  *)
(* not empty and every region has an aligned start, an aligned end and     *)
(* start # end; otherwise it returns NoScrubAreas, UnalignedStart,         *)
(* UnalignedEnd or EmptyScrubArea.                                         *)
(***************************************************************************)
ValidAreas(areas) ==
    /\ Len(areas) > 0
    /\ \A i \in 1 .. Len(areas) :
          /\ areas[i].start % cacheline_size = 0
          /\ areas[i].end % cacheline_size = cacheline_size - 1
          /\ areas[i].start # areas[i].end

C10_NewAccepts ==
    pc # "start" =>
        /\ (pc # "failed") = ValidAreas(args)
        /\ pc # "failed" => scrub_areas = args
        /\ pc = "failed" =>
              result \in {"NoScrubAreas", "UnalignedStart", "UnalignedEnd", "EmptyScrubArea"}

\* new has refused a list of two regions for its second region.
C10_Witness ==
    /\ pc = "failed"
    /\ Len(args) = 2
    /\ ValidAreas(<<args[1]>>)
    /\ result = "UnalignedEnd"

(***************************************************************************)
(* The first region of the list given to new that is not valid.            *)
(***************************************************************************)
Defective(a) == ~ValidAreas(<<a>>)
HasDefective == \E i \in 1 .. Len(args) : Defective(args[i])
FirstDefective ==
    args[CHOOSE i \in 1 .. Len(args) :
            /\ Defective(args[i])
            /\ \A j \in 1 .. i - 1 : ~Defective(args[j])]
StartAligned(a) == a.start % cacheline_size = 0
EndAligned(a) == a.end % cacheline_size = cacheline_size - 1

(***************************************************************************)
(* C11, as stated. Within one region new checks the start's alignment,     *)
(* then the end's alignment, then emptiness: the first defective region is *)
(* reported as UnalignedStart when its start is misaligned, else as        *)
(* UnalignedEnd when its end is misaligned, else as EmptyScrubArea, also   *)
(* when its start equals its end.                                          *)
(***************************************************************************)
C11_AlignmentBeforeEmptiness ==
    (pc = "failed" /\ HasDefective) =>
        result = IF ~StartAligned(FirstDefective) THEN "UnalignedStart"
                 ELSE IF ~EndAligned(FirstDefective) THEN "UnalignedEnd"
                 ELSE "EmptyScrubArea"

(***************************************************************************)
(* C11, amended. Within one region new checks emptiness, then the start's  *)
(* alignment, then the end's alignment, and reports the first check that   *)
(* fails: a region with start = end is reported as EmptyScrubArea whatever *)
(* its alignment.                                                          *)
(***************************************************************************)
C11_EmptinessBeforeAlignment ==
    (pc = "failed" /\ HasDefective) =>
        result = IF FirstDefective.start = FirstDefective.end THEN "EmptyScrubArea"
                 ELSE IF ~StartAligned(FirstDefective) THEN "UnalignedStart"
                 ELSE "UnalignedEnd"

\* new has refused a region whose start is misaligned and equal to its end.
C11_Witness ==
    /\ pc = "failed"
    /\ HasDefective
    /\ FirstDefective.start = FirstDefective.end
    /\ ~StartAligned(FirstDefective)
    /\ result = "EmptyScrubArea"

(***************************************************************************)
(* C12. new on a list that is not empty and whose first defective region   *)
(* has start = end returns EmptyScrubArea, in particular when that start   *)
(* is aligned.                                                             *)
(***************************************************************************)
C12_EmptyScrubArea ==
    (pc # "start" /\ HasDefective /\ FirstDefective.start = FirstDefective.end) =>
        pc = "failed" /\ result = "EmptyScrubArea"

\* new has refused, after a valid region, a region with an aligned start
\* equal to its end.
C12_Witness ==
    /\ pc = "failed"
    /\ Len(args) = 2
    /\ ~Defective(args[1])
    /\ args[2].start = args[2].end
    /\ StartAligned(args[2])
    /\ result = "EmptyScrubArea"

(***************************************************************************)
(* C13. For a list that is not empty, in which every region has            *)
(* start # end and exactly one region violates exactly one alignment       *)
(* invariant, new returns UnalignedStart when that region's start is not a *)
(* multiple of the cache line size and UnalignedEnd when its end is not    *)
(* one less than a multiple of it.                                         *)
(***************************************************************************)
Violations(a) ==
    (IF StartAligned(a) THEN {} ELSE {"UnalignedStart"}) \cup
    (IF EndAligned(a) THEN {} ELSE {"UnalignedEnd"})
OneAlignmentDefect ==
    /\ Len(args) > 0
    /\ \A i \in 1 .. Len(args) : args[i].start # args[i].end
    /\ Cardinality({i \in 1 .. Len(args) : Violations(args[i]) # {}}) = 1
    /\ \A i \in 1 .. Len(args) : Cardinality(Violations(args[i])) <= 1

C13_OneAlignmentDefect ==
    (pc # "start" /\ OneAlignmentDefect) =>
        /\ pc = "failed"
        /\ \E i \in 1 .. Len(args) : Violations(args[i]) = {result}

\* new has refused a list of two regions whose first region has only a
\* misaligned end.
C13_Witness ==
    /\ pc = "failed"
    /\ OneAlignmentDefect
    /\ Len(args) = 2
    /\ Violations(args[1]) = {"UnalignedEnd"}
    /\ result = "UnalignedEnd"

(***************************************************************************)
(* C14. new with an empty list returns NoScrubAreas, and returns           *)
(* NoScrubAreas for no list that is not empty.                             *)
(***************************************************************************)
C14_NoScrubAreas ==
    pc # "start" => ((result = "NoScrubAreas") = (Len(args) = 0))

\* new has refused the empty list.
C14_Witness ==
    /\ pc = "failed"
    /\ args = <<>>
    /\ result = "NoScrubAreas"

(***************************************************************************)
(* C15. When several regions of the list are not valid, the error of new   *)
(* is the one of the invalid region at the smallest position: it is an     *)
(* error that region triggers, and it is the result of new on that region  *)
(* alone, whatever the later regions are.                                  *)
(***************************************************************************)
Triggers(a) ==
    Violations(a) \cup (IF a.start = a.end THEN {"EmptyScrubArea"} ELSE {})

C15_FirstInvalidRegion ==
    (pc # "start" /\ HasDefective) =>
        /\ pc = "failed"
        /\ result \in Triggers(FirstDefective)
        /\ result = new_result(<<FirstDefective>>)

\* new has refused a list of two invalid regions that trigger different
\* errors, with the error of the first.
C15_Witness ==
    /\ pc = "failed"
    /\ Len(args) = 2
    /\ Defective(args[1])
    /\ Defective(args[2])
    /\ Triggers(args[1]) \cap Triggers(args[2]) = {}
    /\ result \in Triggers(args[1])

(***************************************************************************)
(* C16. scrub(n) returns UnalignedSize if and only if n is not a multiple  *)
(* of the cache line size; the call then reads no cache line and leaves    *)
(* the scrubber's iterator as it was, so that the next valid scrub goes on *)
(* from where the last successful one stopped.                             *)
(***************************************************************************)
C16_UnalignedSize ==
    prev # <<>> =>
        LET call == prev[1]
            unaligned == call.n % cacheline_size # 0
        IN  /\ (result = "UnalignedSize") = unaligned
            /\ unaligned =>
                  /\ pc = "idle"
                  /\ touched = call.touched
                  /\ iterator = call.iterator

\* scrub has refused a size in the middle of a pass, after some cache lines
\* were read.
C16_Witness ==
    /\ prev # <<>>
    /\ result = "UnalignedSize"
    /\ touched # <<>>
    /\ ~is_none(iterator)

(***************************************************************************)
(* C17. Error::IteratorFailed is never returned: whatever new, scrub and   *)
(* autoscrub are given, the only errors they return are NoScrubAreas,      *)
(* EmptyScrubArea, UnalignedStart, UnalignedEnd and UnalignedSize.         *)
(***************************************************************************)
C17_IteratorFailedUnreachable ==
    /\ result # "IteratorFailed"
    /\ pc = "failed" =>
          result \in {"NoScrubAreas", "EmptyScrubArea", "UnalignedStart", "UnalignedEnd"}
    /\ pc \in {"idle", "done"} => result \in {"Ok", "UnalignedSize"}

\* autoscrub has returned Ok after scrubbing more cache lines than the regions
\* hold, so that scrub has seen its iterator end.
C17_Witness ==
    /\ pc = "done"
    /\ result = "Ok"
    /\ OrderedRegions
    /\ Len(touched) > TotalLines

(***************************************************************************)
(* What the policy of autoscrub has returned.                              *)
(***************************************************************************)
AlignedChunk(n) == n % cacheline_size = 0
NonZeroChunk(n) == n # 0
AllAligned == \A i \in 1 .. Len(chunks) : AlignedChunk(chunks[i])
LastChunk == chunks[Len(chunks)]
RECURSIVE ChunkLines(_)
ChunkLines(seq) ==
    IF seq = <<>> THEN 0 ELSE Head(seq) \div cacheline_size + ChunkLines(Tail(seq))
\* One scrub of the given number of cache lines by a fresh scrubber.
OneScrub(lines) == scrub_lines([iterator |-> None, touched |-> <<>>, ok |-> TRUE], lines)

(***************************************************************************)
(* C18. For a policy that returns chunks c1, ..., cj, all non-zero         *)
(* multiples of the cache line size, and then zero, autoscrub calls scrub  *)
(* once per chunk, in order, never for the zero chunk, returns success,    *)
(* and the addresses read are those of one scrub(c1 + ... + cj) by a fresh *)
(* scrubber over the same regions. (Returning success: no scrub call of    *)
(* autoscrub panics or fails to return.)                                   *)
(***************************************************************************)
Autoscrubs ==
    /\ prev = SelectSeq(chunks, NonZeroChunk)
    /\ pc # "panic"
    /\ ~Spinning
    /\ (chunks # <<>> /\ LastChunk = 0) => pc = "done"
    /\ pc = "done" =>
          /\ result = "Ok"
          /\ OneScrub(ChunkLines(prev)).ok
          /\ touched = OneScrub(ChunkLines(prev)).touched

C18_Autoscrub == (pc \notin {"start", "failed"} /\ AllAligned) => Autoscrubs

\* The same for the regions that all have start < end: it holds.
C18_AutoscrubOfOrderedRegions ==
    (pc \notin {"start", "failed"} /\ AllAligned /\ OrderedRegions) => Autoscrubs

(***************************************************************************)
(* C19. When the policy returns a chunk that is not a multiple of the      *)
(* cache line size, autoscrub returns UnalignedSize at once: the policy is *)
(* not asked again, no cache line is read for that chunk, and the          *)
(* addresses read are exactly those of the earlier chunks.                 *)
(***************************************************************************)
C19_AutoscrubError ==
    /\ \A i \in 1 .. Len(chunks) - 1 : AlignedChunk(chunks[i]) /\ chunks[i] # 0
    /\ (chunks # <<>> /\ ~AlignedChunk(LastChunk)) =>
          /\ pc \in {"idle", "done"}
          /\ result = "UnalignedSize"
          /\ touched = OneScrub(ChunkLines(SubSeq(chunks, 1, Len(chunks) - 1))).touched

\* autoscrub has returned UnalignedSize for its second chunk, after the cache
\* lines of the first were read.
C19_Witness ==
    /\ pc = "done"
    /\ result = "UnalignedSize"
    /\ Len(chunks) = 2
    /\ touched # <<>>

(***************************************************************************)
(* C20. autoscrub returns if and only if the policy returns zero or an     *)
(* unaligned chunk, or new fails; when the policy returns zero after       *)
(* aligned chunks only, autoscrub returns success. Stated on the states:   *)
(* autoscrub has returned only for one of these causes; it has returned    *)
(* once the policy has returned zero or an unaligned chunk; and until then *)
(* every scrub call it makes can go on to its return, so that the policy   *)
(* is asked again.                                                         *)
(***************************************************************************)
C20_AutoscrubReturns ==
    /\ pc = "failed" => result \notin {"Ok", "UnalignedSize"}
    /\ pc = "done" => (chunks # <<>> /\ (LastChunk = 0 \/ ~AlignedChunk(LastChunk)))
    /\ (chunks # <<>> /\ LastChunk = 0) => (pc = "done" /\ result = "Ok")
    /\ (chunks # <<>> /\ ~AlignedChunk(LastChunk)) => pc \in {"idle", "done"}
    /\ pc \notin {"start", "failed", "done"} => (pc # "panic" /\ ~Spinning)

\* The same for the regions that all have start < end: it holds.
C20_AutoscrubReturnsOfOrderedRegions ==
    (pc \in {"start", "failed"} \/ OrderedRegions) => C20_AutoscrubReturns

(***************************************************************************)
(* C21. Periodic coverage: as long as scrub is called with positive sizes, *)
(* every cache line of every region is read again and again: within any T  *)
(* consecutive reads (T the cache lines of all the regions) every cache    *)
(* line of every region is read exactly once.                              *)
(***************************************************************************)
Occurs(seq, x) == Cardinality({i \in 1 .. Len(seq) : seq[i] = x})
Window(i) == SubSeq(touched, i, i + TotalLines - 1)
PeriodicCoverage ==
    \A i \in 1 .. Len(touched) - TotalLines + 1 :
       \A x \in {touched[j] : j \in 1 .. Len(touched)} \cup
                {CanonPass[j] : j \in 1 .. TotalLines} :
          Occurs(Window(i), x) = Occurs(CanonPass, x)

C21_PeriodicCoverage == pc \notin {"start", "failed"} => PeriodicCoverage

\* The same for the scrubbers whose regions all have start < end: it holds.
C21_PeriodicCoverageOfOrderedRegions ==
    (pc \notin {"start", "failed"} /\ OrderedRegions) => PeriodicCoverage

(***************************************************************************)
(* C24. Every scrub(n) of a multiple of the cache line size on a scrubber  *)
(* that new has returned runs to its end and returns Ok, whatever state    *)
(* the iterator is in: the inner loop, which makes a new iterator when the *)
(* old one returns None, always obtains an address.                        *)
(***************************************************************************)
\* The inner loop of scrub obtains an address in its next turn, or in the one
\* after when the iterator it holds returns None.
Obtains ==
    LET first == scrub_fetch(iterator)
        second == scrub_fetch(first.iterator)
    IN  /\ ~first.panic
        /\ is_none(first.res) => (~second.panic /\ ~is_none(second.res))

ScrubTerminates ==
    /\ pc = "loop" => Obtains
    /\ pc # "panic"
    /\ pc = "idle" => result \in {"Ok", "UnalignedSize"}

C24_ScrubTerminates == pc \notin {"start", "failed"} => ScrubTerminates

\* The same for the scrubbers whose regions all have start < end: it holds.
C24_ScrubTerminatesOfOrderedRegions ==
    (pc \notin {"start", "failed"} /\ OrderedRegions) => ScrubTerminates

(***************************************************************************)
(* A MemoryScrubberIterator iterated on its own, and what it emitted.      *)
(***************************************************************************)
MultiMode == ~is_none(iterator) /\ pc = "off"
emit_region(i) == emitted[i][3]
emit_set(i) == cache_index(emit_addr(i))

C23_Frame ==
    [][pc # "start" =>
          /\ scrub_areas' = scrub_areas
          /\ cacheline_width' = cacheline_width
          /\ cache_index_width' = cache_index_width]_vars

\* autoscrub has returned Ok after scrubs that read lines of several regions
\* and went round the list, and the region list is the one given to new.
C23_Witness ==
    /\ pc = "done"
    /\ result = "Ok"
    /\ Len(prev) >= 1
    /\ Len(scrub_areas) > 1
    /\ Len(touched) > TotalLines
    /\ scrub_areas = args

(***************************************************************************)
(* The ScrubAreaIterator iterated on its own: its state, the number of     *)
(* lines it emitted at one value of index, and the addresses a fresh       *)
(* iterator over a region returns in its first n calls.                    *)
(***************************************************************************)
AreaMode == ~is_none(area_iter)
the_iter == unwrap(area_iter)
EmittedAt(k) == Cardinality({i \in Emits : emit_index(i) = k})
EmittedBefore(i) == Cardinality({j \in 1 .. i - 1 : emit_index(j) = emit_index(i)})

RECURSIVE RunFrom(_, _)
RunFrom(it, n) ==
    IF n = 0 THEN <<>>
    ELSE LET r == ScrubAreaIterator_next(it)
         IN  IF r.panic \/ is_none(r.res) THEN <<>>
             ELSE <<unwrap(r.res)>> \o RunFrom(r.self, n - 1)

Run(a, n) == RunFrom(ScrubAreaIterator_new(a), n)
Translate(a, d) ==
    [start |-> a.start + d * cacheline_size, end |-> a.end + d * cacheline_size]
Shifted(d) == [i \in Emits |-> Wrap(emit_addr(i) + d * cacheline_size)]

(***************************************************************************)
(* C25. The m-th address emitted at index k is                             *)
(* start + (k + m * cache_lines) * cacheline_size, with no term for the    *)
(* cache index of start; and the iterator over the region moved by d cache *)
(* lines emits the same addresses, in the same order, moved by             *)
(* d * cacheline_size, whatever cache index the moved start has.           *)
(***************************************************************************)
C25_AddressFormula ==
    AreaMode =>
        /\ \A i \in Emits :
              emit_addr(i) =
                 Wrap(the_area.start
                        + (emit_index(i) + EmittedBefore(i) * cache_lines) * cacheline_size)
        /\ \A d \in 1 .. cache_lines + 1 :
              Run(Translate(the_area, d), Len(emitted)) = Shifted(d)

\* A region whose start is not in cache set 0 has been iterated to the end,
\* over several sets with several lines in one of them.
C25_Witness ==
    /\ AreaMode
    /\ AtEOF
    /\ cache_lines > 1
    /\ cache_index(the_area.start) # 0
    /\ \E i \in Emits : emit_index(i) > 0 /\ EmittedBefore(i) > 0

(***************************************************************************)
(* C26. An address emitted while index has the value k is in the cache set *)
(* (cache_index(start) + k) mod cache_lines: the addresses of one index    *)
(* are in one set, and those of different indexes in different sets.       *)
(***************************************************************************)
C26_SetOfIndex ==
    AreaMode =>
        /\ \A i \in Emits :
              emit_set(i) = (cache_index(the_area.start) + emit_index(i)) % cache_lines
        /\ \A i, j \in Emits :
              (emit_index(i) = emit_index(j)) <=> (emit_set(i) = emit_set(j))

\* The sets wrapped round: an address was emitted at an index k > 0 with
\* cache_index(start) + k >= cache_lines, after two addresses of an earlier set.
C26_Witness ==
    /\ AreaMode
    /\ AtEOF
    /\ \E i, j, k \in Emits :
          /\ i < j
          /\ j < k
          /\ emit_index(i) = emit_index(j)
          /\ emit_index(k) > emit_index(j)
          /\ cache_index(the_area.start) + emit_index(k) >= cache_lines
          /\ emit_set(k) = 0

(***************************************************************************)
(* C28, as stated. In every state of a ScrubAreaIterator, index is below   *)
(* cache_lines.                                                            *)
(***************************************************************************)
C28_IndexBelowCacheLines ==
    AreaMode => (0 <= the_iter.index /\ the_iter.index < cache_lines)

(***************************************************************************)
(* C28, amended. In every state of a ScrubAreaIterator, index is in        *)
(* 0 .. cache_lines; it is cache_lines exactly when the iterator has       *)
(* returned None, and every address was emitted at an index below          *)
(* cache_lines.                                                            *)
(***************************************************************************)
C28_IndexUpToCacheLines ==
    AreaMode =>
        /\ 0 <= the_iter.index
        /\ the_iter.index <= cache_lines
        /\ (the_iter.index = cache_lines) <=> AtEOF
        /\ \A i \in Emits : emit_index(i) < cache_lines

\* The iterator has emitted lines of several sets and returned None with
\* index at cache_lines.
C28_Witness ==
    /\ AreaMode
    /\ AtEOF
    /\ the_iter.index = cache_lines
    /\ cache_lines > 1
    /\ \E i \in Emits : emit_index(i) = cache_lines - 1

(***************************************************************************)
(* C29. In every state of a ScrubAreaIterator, offset is a multiple of     *)
(* cache_lines, and offset / cache_lines is the number of addresses        *)
(* emitted at the current index; offset is 0 when index has advanced and   *)
(* nothing has been emitted at the new index.                              *)
(***************************************************************************)
C29_OffsetCountsLines ==
    AreaMode =>
        /\ the_iter.offset % cache_lines = 0
        /\ the_iter.offset \div cache_lines = EmittedAt(the_iter.index)
        /\ EmittedAt(the_iter.index) = 0 => the_iter.offset = 0

\* The index has advanced, and two addresses were emitted at the new index.
C29_Witness ==
    /\ AreaMode
    /\ area_res = "Some"
    /\ cache_lines > 1
    /\ the_iter.index > 0
    /\ the_iter.offset = 2 * cache_lines
    /\ EmittedAt(the_iter.index) = 2

\* The state of the MemoryScrubberIterator iterated on its own.
the_multi == unwrap(iterator)

\* The S cache lines of a region, S being its size_in_cachelines.
SizedLines(a) == {ptr_offset(a.start, k) : k \in 0 .. size_in_cachelines(a).val - 1}

\* A further next() of the ScrubAreaIterator returns None and leaves it as it is.
AreaEOFAgain ==
    LET r == ScrubAreaIterator_next(the_iter)
    IN  ~r.panic /\ is_none(r.res) /\ r.self = the_iter

\* A further next() of the MemoryScrubberIterator returns None and leaves it
\* as it is.
MultiEOFAgain ==
    LET r == MemoryScrubberIterator_next(the_multi)
    IN  ~r.panic /\ is_none(r.res) /\ r.self = the_multi

(***************************************************************************)
(* C27. A ScrubAreaIterator has returned None exactly when its index is    *)
(* cache_lines; by then the S cache lines of the region have been emitted, *)
(* once each; and a further next() returns None again and changes nothing. *)
(* A MemoryScrubberIterator has returned None exactly when its index is    *)
(* the number of regions, and a further next() returns None again and      *)
(* changes nothing.                                                        *)
(***************************************************************************)
C27_EOF ==
    /\ AreaMode =>
          /\ AtEOF <=> the_iter.index = cache_lines
          /\ AtEOF =>
                /\ {emit_addr(i) : i \in Emits} = SizedLines(the_area)
                /\ Len(emitted) = size_in_cachelines(the_area).val
                /\ AreaEOFAgain
    /\ MultiMode =>
          /\ area_res = "None" <=> the_multi.index = Len(scrub_areas)
          /\ area_res = "None" =>
                /\ is_none(the_multi.iterator)
                /\ MultiEOFAgain

\* A ScrubAreaIterator over several sets has emitted the lines of its region
\* and returned None.
C27_Witness ==
    /\ AreaMode
    /\ AtEOF
    /\ cache_lines > 1
    /\ Len(emitted) >= 3
    /\ the_iter.index = cache_lines

\* The MemoryScrubberIterator is in one region before and after the step.
SameRegion ==
    /\ the_multi'.index = the_multi.index
    /\ ~is_none(the_multi.iterator)
    /\ ~is_none(the_multi'.iterator)

inner == unwrap(the_multi.iterator)

(***************************************************************************)
(* C30, as stated. At every step of an iterator that leaves it             *)
(* unexhausted, no counter decreases: not the index nor the offset of a    *)
(* ScrubAreaIterator, not the index of the MemoryScrubberIterator nor the  *)
(* index and offset of its ScrubAreaIterator while it stays in one region. *)
(***************************************************************************)
C30_CountersNeverDecrease ==
    [][area_res' = "Some" =>
          /\ AreaMode =>
                /\ the_iter'.index >= the_iter.index
                /\ the_iter'.offset >= the_iter.offset
          /\ MultiMode =>
                /\ the_multi'.index >= the_multi.index
                /\ SameRegion =>
                      /\ inner'.index >= inner.index
                      /\ inner'.offset >= inner.offset]_vars

(***************************************************************************)
(* C30, amended. At every step of an iterator, the index of the            *)
(* MemoryScrubberIterator and the index of a ScrubAreaIterator do not      *)
(* decrease; the offset of a ScrubAreaIterator does not decrease while its *)
(* index stays the same, and it starts again from 0 when the index         *)
(* advances (after the step it is 0, or cache_lines if the step emitted an *)
(* address).                                                               *)
(***************************************************************************)
C30_CountersAdvance ==
    [][/\ AreaMode =>
             /\ the_iter'.index >= the_iter.index
             /\ the_iter'.index = the_iter.index => the_iter'.offset >= the_iter.offset
             /\ the_iter'.index > the_iter.index => the_iter'.offset \in {0, cache_lines}
       /\ MultiMode =>
             /\ the_multi'.index >= the_multi.index
             /\ SameRegion =>
                   /\ inner'.index >= inner.index
                   /\ inner'.index = inner.index => inner'.offset >= inner.offset
                   /\ inner'.index > inner.index => inner'.offset \in {0, cache_lines}]_vars

\* A ScrubAreaIterator emitted two addresses at one index, went on to the next
\* index and emitted one address there: its offset went from 2 * cache_lines
\* to cache_lines.
C30_Witness ==
    /\ AreaMode
    /\ area_res = "Some"
    /\ the_iter.index > 0
    /\ the_iter.offset = cache_lines
    /\ EmittedAt(the_iter.index - 1) >= 2

(***************************************************************************)
(* The lines of the region of the ScrubAreaIterator iterated on its own,   *)
(* and its line order: the places, counted from start, of the emitted      *)
(* addresses.                                                              *)
(***************************************************************************)
S_lines == Cardinality(LinesOf(the_area))
line_no(i) == (emit_addr(i) - the_area.start) \div cacheline_size
LineOrder == [i \in Emits |-> line_no(i)]

\* The next next() returns None.
EOFNext ==
    LET r == ScrubAreaIterator_next(the_iter)
    IN  ~r.panic /\ is_none(r.res)

\* A region of fewer lines than the cache has sets: the i-th emitted address
\* is line i - 1, emitted at index i - 1; no more than S addresses are emitted,
\* no next() panics, and after S addresses next() returns None.
SmallRegion ==
    /\ Len(emitted) <= S_lines
    /\ \A i \in Emits : emit_index(i) = i - 1 /\ line_no(i) = i - 1
    /\ area_res # "panic"
    /\ Len(emitted) = S_lines => EOFNext
    /\ AtEOF => Len(emitted) = S_lines

(***************************************************************************)
(* C31. For a region of S < cache_lines lines, each of the sets 0..S-1     *)
(* (counted from the set of start) contributes exactly one address, the    *)
(* sets S..cache_lines-1 none, the order is line 0, 1, ..., S-1, and the   *)
(* iterator returns None after exactly S addresses.                        *)
(***************************************************************************)
C31_SmallRegion == (AreaMode /\ S_lines < cache_lines) => SmallRegion

\* The same for the regions whose start is below their end: it holds.
C31_SmallRegionOfOrderedRegions ==
    (AreaMode /\ S_lines < cache_lines /\ the_area.start < the_area.end) => SmallRegion

\* ceil((S - k) / L) for k < S, and 0 for the other sets.
SetShare(k) ==
    IF k < S_lines THEN (S_lines - k + cache_lines - 1) \div cache_lines ELSE 0

(***************************************************************************)
(* C32. In a complete iteration of a region of S lines, the set k (counted *)
(* from the set of start, 0 <= k < cache_lines) contributes                *)
(* ceil((S - k) / cache_lines) addresses when k < S and none otherwise:    *)
(* the first S mod cache_lines sets contribute one address more than the   *)
(* others.  A region of 6 lines in a cache of 4 sets is iterated in the    *)
(* line order 0, 4, 1, 5, 2, 3.                                            *)
(***************************************************************************)
C32_SetShares ==
    (AreaMode /\ AtEOF) =>
        /\ \A k \in 0 .. cache_lines - 1 :
              /\ EmittedAt(k) = SetShare(k)
              /\ k < S_lines % cache_lines => SetShare(k) = S_lines \div cache_lines + 1
              /\ k >= S_lines % cache_lines => SetShare(k) = S_lines \div cache_lines
        /\ (S_lines = 6 /\ cache_lines = 4) => LineOrder = <<0, 4, 1, 5, 2, 3>>

\* A region of 6 lines in a cache of 4 sets has been iterated to the end.
C32_Witness ==
    /\ AreaMode
    /\ AtEOF
    /\ S_lines = 6
    /\ cache_lines = 4
    /\ Len(emitted) = 6

(***************************************************************************)
(* The scrubber with the history of its last scrub call.                   *)
(***************************************************************************)
last_call == prev[1]

\* new has returned Ok and scrub has not been called: nothing is read and
\* there is no iterator.  During and after scrub(0) the iterator and the
\* addresses read are those of the beginning of the call, no line is asked
\* for, and the call returns Ok.  The iterator that gave the last line read
\* is kept until another line is asked for.
LazyState ==
    /\ (pc = "idle" /\ prev = <<>>) => (is_none(iterator) /\ touched = <<>>)
    /\ (prev # <<>> /\ last_call.n = 0) =>
          /\ pc \in {"for", "idle"}
          /\ iterator = last_call.iterator
          /\ touched = last_call.touched
          /\ pc = "idle" => result = "Ok"
    /\ (pc \in {"for", "idle"} /\ touched # <<>>) => ~is_none(iterator)

\* An iterator is made, and the iterator is dropped, only in the inner loop of
\* scrub, when a line is asked for; it is made only when there is none.
LazyStep ==
    /\ iterator' # iterator => (pc = "loop" /\ todo > 0)
    /\ pc = "start" => (iterator' = None /\ touched' = <<>>)

(***************************************************************************)
(* C33. Lazy iterator: MemoryScrubber::new reads no cache line and leaves  *)
(* the iterator absent; scrub(0) returns Ok, reads no cache line and makes *)
(* no iterator; an iterator is made only when a line is asked for and      *)
(* there is none, also after a pass is exhausted.                          *)
(***************************************************************************)
C33_LazyIterator == [][LazyStep]_vars /\ []LazyState

\* scrub(0) on a new scrubber has returned Ok with no iterator and no read.
C33_Witness ==
    /\ pc = "idle"
    /\ prev # <<>>
    /\ last_call.n = 0
    /\ result = "Ok"
    /\ is_none(last_call.iterator)
    /\ is_none(iterator)
    /\ touched = <<>>

\* The address the iterator returns is held in p until it is read; it is read
\* in the next step, once, and the iterator is not asked again before; nothing
\* else is read.
TouchStep ==
    /\ (pc = "loop" /\ ~scrub_fetch(iterator).panic /\ ~is_none(scrub_fetch(iterator).res)) =>
          (pc' = "touch" /\ p' = scrub_fetch(iterator).res /\ touched' = touched)
    /\ pc = "touch" =>
          /\ touched' = Append(touched, unwrap(p))
          /\ iterator' = iterator
          /\ p' = None
          /\ pc' # "touch"
    /\ touched' # touched => pc = "touch"
    /\ iterator' # iterator => (pc = "loop" /\ is_none(p))

(***************************************************************************)
(* C34. Every address the scrubber's iterator returns is given to          *)
(* read_cacheline exactly once, before the iterator is asked for another   *)
(* one: none is dropped and none is read twice, the first address of a     *)
(* MemoryScrubberIterator made after a wrap included.                      *)
(***************************************************************************)
C34_TouchedOnce == [][TouchStep]_vars /\ [](pc = "touch" <=> ~is_none(p))

\* The first address of the second pass has just been read.
C34_Witness ==
    /\ pc = "for"
    /\ OrderedRegions
    /\ Len(scrub_areas) > 1
    /\ Len(touched) = TotalLines + 1
    /\ Len(pass_lines) = 1

\* The region has its start below its end, and its size in cache lines is
\* computed without overflow, is at least 1 and is (end - start + 1) divided
\* by the size of a cache line.
WellSized(a) ==
    /\ a.start < a.end
    /\ ~size_in_cachelines(a).overflow
    /\ size_in_cachelines(a).val >= 1
    /\ size_in_cachelines(a).val * cacheline_size = a.end - a.start + 1

(***************************************************************************)
(* C35. Every region of a list that MemoryScrubber::new accepts has        *)
(* start < end, so that its size in cache lines is computed without        *)
(* underflow, is at least 1 and is (end - start + 1) / cacheline_size; a   *)
(* list with a region whose end is below its start is rejected.            *)
(***************************************************************************)
C35_AcceptedRegionsOrdered ==
    /\ pc \notin {"start", "failed"} =>
          \A i \in 1 .. Len(scrub_areas) : WellSized(scrub_areas[i])
    /\ (pc # "start" /\ \E i \in 1 .. Len(args) : args[i].end < args[i].start) =>
          pc = "failed"

\* autoscrub was given a list that MemoryScrubber::new refuses: it has returned
\* the error of new, the policy was not asked for a size, scrub was not called
\* and nothing was read.
ConstructionFailed ==
    /\ pc = "failed"
    /\ result = new_result(args)
    /\ result \in {"NoScrubAreas", "EmptyScrubArea", "UnalignedStart", "UnalignedEnd"}
    /\ chunks = <<>>
    /\ prev = <<>>
    /\ touched = <<>>
    /\ n_reads = <<>>
    /\ is_none(iterator)

(***************************************************************************)
(* C36. When MemoryScrubber::new fails inside autoscrub (an empty list or  *)
(* an invalid region), autoscrub returns the error of new, without a call  *)
(* of the policy's next() and without a read of a cache line; it does      *)
(* nothing after that.                                                     *)
(***************************************************************************)
C36_ConstructionError ==
    /\ []((pc # "start" /\ new_result(args) # "Ok") => ConstructionFailed)
    /\ [](pc = "failed" => ConstructionFailed)
    /\ [][pc # "failed"]_vars

\* autoscrub has returned the error of the second region of its list.
C36_Witness ==
    /\ pc = "failed"
    /\ Len(args) = 2
    /\ check_scrub_area(args[1]) = "Ok"
    /\ result = check_scrub_area(args[2])
    /\ chunks = <<>>
    /\ touched = <<>>

\* No borrow of the RefCell of the cache descriptor is live.
NoBorrow == cell.readers = 0 /\ ~cell.writing

(***************************************************************************)
(* C37. The RefCell of the cache descriptor is never borrowed mutably      *)
(* while another borrow is live: when scrub is about to take the mutable   *)
(* borrow for read_cacheline, the borrows taken in ScrubAreaIterator::next *)
(* and MemoryScrubberIterator::next have all been dropped, the mutable     *)
(* borrow succeeds, and no borrow ever panics.                             *)
(***************************************************************************)
C37_NoBorrowPanic ==
    /\ ~cell.failed
    /\ pc = "touch" => (NoBorrow /\ ~RefCell_borrow_mut(cell).failed)
    /\ pc \in {"idle", "for", "loop"} => NoBorrow

\* scrub is about to read a cache line of the second pass, after the
\* ScrubAreaIterators of several regions have borrowed the cell.
C37_Witness ==
    /\ pc = "touch"
    /\ NoBorrow
    /\ Len(scrub_areas) > 1
    /\ Len(touched) > TotalLines
    /\ RefCell_borrow_mut(cell).writing
====
